---- MODULE Spec2Model ----
(***************************************************************************)
(* Verification model of the orbital-facility dashboard:                   *)
(*   - BlockchainClient and NASADebrisClient (fetch wrappers and the       *)
(*     signature check of createTransaction),                              *)
(*   - the useWallet hook over browser storage,                            *)
(*   - the per-frame callbacks of the 3D scene components.                 *)
(* The parts share no state; each has its own specification                *)
(* (Spec, FetchSpec, WalletSpec, SceneSpec, InteriorSpec, ...) over the    *)
(* module variables, the other parts staying at their initial value.       *)
(***************************************************************************)
EXTENDS Integers, Sequences, FiniteSets, TLC

VARIABLES
    blocks,        \* BlockchainClient.blocks        (private field, Block[])
    transactions,  \* BlockchainClient.transactions  (private field, Transaction[])
    lastCreate,    \* the last createTransaction call and how it ended
    calls,         \* the asynchronous (fetching) calls, by call id
    storage,       \* localStorage["orbital-privateKey"]
    storage0,      \* what storage held before the first mount
    hooks,         \* the useWallet instances: position, effect locals, state
    generatedKeys, \* the keys ethers.Wallet.createRandom() has returned
    writes,        \* how many times a hook has called localStorage.setItem
    comp,          \* the scene component the runs render
    runs,          \* the runs (mounts of the component): clock, props, pose
    activeSystem,  \* SatelliteInteriorScene's prop activeSystem
    isActiveProps, \* the isActive prop the scene gives each of its elements
    validation     \* a call of validateTransactionData: arguments and result

clientVars == <<blocks, transactions, lastCreate, calls>>

walletVars == <<storage, storage0, hooks, generatedKeys, writes>>

sceneVars == <<comp, runs, activeSystem, isActiveProps>>

utilVars == <<validation>>

vars == <<clientVars, walletVars, sceneVars, utilVars>>

nonClientVars == <<walletVars, sceneVars, utilVars>>

nonWalletVars == <<clientVars, sceneVars, utilVars>>

nonSceneVars == <<clientVars, walletVars, utilVars>>

nonUtilVars == <<clientVars, walletVars, sceneVars>>

(***************************************************************************)
(* Strings whose letter case matters are sequences of characters.          *)
(***************************************************************************)
LowerChar(ch) ==
    CASE ch = "A" -> "a"
      [] ch = "B" -> "b"
      [] ch = "C" -> "c"
      [] ch = "D" -> "d"
      [] OTHER -> ch

\* String.prototype.toLowerCase
ToLowerCase(s) == [i \in 1..Len(s) |-> LowerChar(s[i])]

\* The accounts of the model and their addresses in checksum (mixed) case,
\* the form ethers returns.
People == {"alice", "bob"}

ChecksumAddress(p) == IF p = "alice" THEN <<"a", "B">> ELSE <<"c", "D">>

\* The address a signature over another message recovers to: no account's.
UnrelatedAddress == <<"9", "f">>

\* The 'from' values callers pass: checksum and lower case spellings.
FromValues == { <<"a", "B">>, <<"a", "b">>, <<"c", "d">> }


(***************************************************************************)
(* createTransaction: payload, message, signature                          *)
(***************************************************************************)
\* Property orders of the txData object a caller builds.
KeyOrders ==
    { <<"type", "data", "from", "to", "timestamp">>,
      <<"from", "to", "type", "data", "timestamp">> }

\* const { signature, ...payload } = txData : the remaining own properties,
\* in txData's order.
Payload(txData) ==
    [keys |-> txData.keys, type |-> txData.type, data |-> txData.data,
     from |-> txData.from, to |-> txData.to, timestamp |-> txData.timestamp]

\* One property as JSON.stringify renders it: its key, then its value.
RenderProperty(payload, k) ==
    CASE k = "type"      -> <<k, payload.type>>
      [] k = "data"      -> <<k, payload.data>>
      [] k = "from"      -> <<k>> \o payload.from
      [] k = "to"        -> <<k, payload.to>>
      [] k = "timestamp" -> <<k, payload.timestamp>>

RECURSIVE RenderProperties(_, _)
RenderProperties(payload, ks) ==
    IF ks = <<>> THEN <<>>
    ELSE RenderProperty(payload, Head(ks)) \o RenderProperties(payload, Tail(ks))

\* JSON.stringify(payload): the properties in the object's own order.
JSONstringify(payload) == RenderProperties(payload, payload.keys)

Payloads ==
    [keys : KeyOrders, type : {"debris_capture"}, data : {"{}"},
     from : FromValues, to : {"station"}, timestamp : {"1"}]

\* A signature is malformed, or was made by an account over a message.
MalformedSignature == [signer |-> "none", over |-> <<>>]

Signatures ==
    {MalformedSignature}
    \cup [signer : People, over : {JSONstringify(p) : p \in Payloads}]

TxInputs ==
    [keys : KeyOrders, type : {"debris_capture"}, data : {"{}"},
     from : FromValues, to : {"station"}, timestamp : {"1"},
     signature : Signatures]

\* ethers.verifyMessage(message, signature): throws on a malformed signature,
\* else recovers the signer's checksum address when the signature is over
\* this message, and an unrelated address when it is over another one.
verifyMessage(message, signature) ==
    IF signature.signer = "none"
    THEN [threw |-> TRUE, address |-> <<>>]
    ELSE IF signature.over = message
    THEN [threw |-> FALSE, address |-> ChecksumAddress(signature.signer)]
    ELSE [threw |-> FALSE, address |-> UnrelatedAddress]

\* A plausible slip: the comparison without toLowerCase().
AddressMatchesCaseSensitive(signerAddress, from) == signerAddress = from

\* signerAddress.toLowerCase() === payload.from.toLowerCase()
AddressMatches(signerAddress, from) ==
    ToLowerCase(signerAddress) = ToLowerCase(from)

\* The error thrown at line 238, inside the try block.
MismatchError == "Signature is invalid or does not match the sender's address."

\* The try block of step 1 and 2: the error thrown in it, or "none".
TryVerify(message, signature, from) ==
    LET recovered == verifyMessage(message, signature)
    IN  IF recovered.threw THEN "verifyMessage threw"
        ELSE IF ~AddressMatches(recovered.address, from) THEN MismatchError
        ELSE "none"

\* A plausible slip: the address comparison placed after the try/catch, so
\* that its error reaches the caller as it is.
VerifySignatureMismatchEscapes(message, signature, from) ==
    LET thrown == TryVerify(message, signature, from)
    IN  IF thrown = "none" THEN "ok"
        ELSE IF thrown = MismatchError THEN MismatchError
        ELSE "Invalid signature."

\* The try/catch of step 1 and 2: "ok", or the error the catch rethrows.
\* The mismatch error thrown inside the try is caught by the same catch.
VerifySignature(message, signature, from) ==
    IF TryVerify(message, signature, from) # "none"
    THEN "Invalid signature."
    ELSE "ok"

\* this.blocks[this.blocks.length - 1].height : reading .height of undefined
\* throws a TypeError when the list is empty.
LastBlockHeight(bl) ==
    IF Len(bl) = 0
    THEN [threw |-> TRUE, height |-> 0]
    ELSE [threw |-> FALSE, height |-> bl[Len(bl)].height]

\* Math.random() ids.
TxIds == {"tx_1", "tx_2"}

NewTransaction(id, txData, height) ==
    [id |-> id, type |-> txData.type, data |-> txData.data,
     from |-> txData.from, to |-> txData.to, timestamp |-> txData.timestamp,
     status |-> "confirmed", blockHeight |-> height, gasUsed |-> 21000,
     signature |-> txData.signature]

\* Whether the signature was made by the declared sender over the message
\* the client serializes (what a correct caller passes).
SignedBySender(txData) ==
    /\ txData.signature.signer # "none"
    /\ ToLowerCase(ChecksumAddress(txData.signature.signer)) = ToLowerCase(txData.from)
    /\ txData.signature.over = JSONstringify(Payload(txData))

NoCreate ==
    [called |-> FALSE, from |-> <<>>, sigThrew |-> FALSE, recovered |-> <<>>,
     bySender |-> FALSE, outcome |-> "none", error |-> "none",
     txBefore |-> <<>>, blocksBefore |-> <<>>]

\* A plausible slip: the transaction is recorded before the signature is
\* verified.
createTransactionStoreFirst(txData) ==
    LET payload == Payload(txData)
        message == JSONstringify(payload)
        rec     == verifyMessage(message, txData.signature)
        verdict == VerifySignature(message, txData.signature, payload.from)
    IN  /\ \E id \in TxIds :
               transactions' = <<NewTransaction(id, txData, 0)>> \o transactions
        /\ lastCreate' =
               [called |-> TRUE, from |-> payload.from, sigThrew |-> rec.threw,
                recovered |-> rec.address, bySender |-> SignedBySender(txData),
                outcome |-> IF verdict = "ok" THEN "resolved" ELSE "rejected",
                error |-> IF verdict = "ok" THEN "none" ELSE verdict,
                txBefore |-> transactions, blocksBefore |-> blocks]
        /\ UNCHANGED <<blocks, calls>>
        /\ UNCHANGED nonClientVars

\* BlockchainClient.createTransaction(txData). It awaits nothing, so the whole
\* body runs in one step; lastCreate records the call, the state before it and
\* how the returned promise settled.
createTransaction(txData) ==
    LET payload == Payload(txData)
        message == JSONstringify(payload)
        rec     == verifyMessage(message, txData.signature)
        verdict == VerifySignature(message, txData.signature, payload.from)
        h       == LastBlockHeight(blocks)
        ended(outcome, error) ==
            [called |-> TRUE, from |-> payload.from, sigThrew |-> rec.threw,
             recovered |-> rec.address, bySender |-> SignedBySender(txData),
             outcome |-> outcome, error |-> error,
             txBefore |-> transactions, blocksBefore |-> blocks]
    IN  /\ IF verdict # "ok"
           THEN /\ lastCreate' = ended("rejected", verdict)
                /\ transactions' = transactions
           ELSE IF h.threw
           THEN /\ lastCreate' = ended("rejected", "TypeError")
                /\ transactions' = transactions
           ELSE /\ lastCreate' = ended("resolved", "none")
                /\ \E id \in TxIds :
                       transactions' =
                           <<NewTransaction(id, txData, h.height)>> \o transactions
        /\ UNCHANGED <<blocks, calls>>
        /\ UNCHANGED nonClientVars

(***************************************************************************)
(* The fetching operations                                                 *)
(***************************************************************************)
BlockchainOps ==
    {"getTransactions", "getBlocks", "getSmartContracts", "executeContract",
     "getAnalytics"}

NasaOps == {"getDebrisData", "getDebrisStatistics"}

\* The calls of one run, by id. Each id is one call of one operation.
CallIds == {"k1", "k2"}

\* Response bodies: text that is not JSON, or the envelope the API answers.
NotJsonBody ==
    [json |-> FALSE, success |-> FALSE, data |-> "none", total |-> 0,
     error |-> "none"]

SuccessBody(d) ==
    [json |-> TRUE, success |-> TRUE, data |-> d, total |-> 2, error |-> "none"]

FailureBody ==
    [json |-> TRUE, success |-> FALSE, data |-> "none", total |-> 0,
     error |-> "server error"]

\* The data of a successful answer is named by a handle; Ledger gives the
\* blocks a handle stands for (interface Block: height, hash, previousHash).
\* "d1" is a well-formed chain, "d2" a list whose second block does not point
\* at the first.
Ledger(d) ==
    IF d = "d1"
    THEN << [height |-> 1, hash |-> "h1", previousHash |-> "h0"],
            [height |-> 2, hash |-> "h2", previousHash |-> "h1"] >>
    ELSE << [height |-> 1, hash |-> "h1", previousHash |-> "h0"],
            [height |-> 5, hash |-> "h2", previousHash |-> "hX"] >>

Bodies == {NotJsonBody, FailureBody, SuccessBody("d1"), SuccessBody("d2")}

\* How a fetch settles: it rejects (network error), or resolves with a
\* Response whose ok flag tells the HTTP status (2xx or not).
NetworkError == [kind |-> "neterr", ok |-> FALSE, body |-> NotJsonBody]

NoResponse == [kind |-> "none", ok |-> FALSE, body |-> NotJsonBody]

Responses == {NetworkError} \cup [kind : {"http"}, ok : BOOLEAN, body : Bodies]

\* How an operation ends. total is -1 where the operation returns no total.
NoOutcome == [kind |-> "none", data |-> "none", total |-> -1, error |-> "none"]

Threw(e) == [kind |-> "threw", data |-> "none", total |-> -1, error |-> e]

Returned(d, t) == [kind |-> "returned", data |-> d, total |-> t, error |-> "none"]

\* await fetch(...) ; await response.json() : what reaches the success test.
ParsedBody(resp) ==
    IF resp.kind = "neterr" THEN Threw("NetworkError")
    ELSE IF ~resp.body.json THEN Threw("SyntaxError")
    ELSE NoOutcome

\* getTransactions, from the settled fetch on.
getTransactions(resp) ==
    IF ParsedBody(resp).kind = "threw" THEN ParsedBody(resp)
    ELSE IF ~resp.body.success THEN Threw(resp.body.error)
    ELSE Returned(resp.body.data, resp.body.total)

\* Whether a list of blocks is a hash chain: heights go up by one and each
\* block names its predecessor's hash.
ValidChain(bl) ==
    \A i \in 2..Len(bl) :
        /\ bl[i].previousHash = bl[i - 1].hash
        /\ bl[i].height = bl[i - 1].height + 1

\* A plausible slip: getBlocks checks the chain it fetched and rejects a
\* broken one.
getBlocksValidating(resp) ==
    IF ParsedBody(resp).kind = "threw" THEN ParsedBody(resp)
    ELSE IF ~resp.body.success THEN Threw(resp.body.error)
    ELSE IF ~ValidChain(Ledger(resp.body.data)) THEN Threw("Invalid chain")
    ELSE Returned(resp.body.data, resp.body.total)

\* getBlocks, from the settled fetch on.
getBlocks(resp) ==
    IF ParsedBody(resp).kind = "threw" THEN ParsedBody(resp)
    ELSE IF ~resp.body.success THEN Threw(resp.body.error)
    ELSE Returned(resp.body.data, resp.body.total)

\* getSmartContracts, from the settled fetch on.
getSmartContracts(resp) ==
    IF ParsedBody(resp).kind = "threw" THEN ParsedBody(resp)
    ELSE IF ~resp.body.success THEN Threw(resp.body.error)
    ELSE Returned(resp.body.data, resp.body.total)

\* executeContract, from the settled fetch on.
executeContract(resp) ==
    IF ParsedBody(resp).kind = "threw" THEN ParsedBody(resp)
    ELSE IF ~resp.body.success THEN Threw(resp.body.error)
    ELSE Returned(resp.body.data, -1)

\* getAnalytics, from the settled fetch on.
getAnalytics(resp) ==
    IF ParsedBody(resp).kind = "threw" THEN ParsedBody(resp)
    ELSE IF ~resp.body.success THEN Threw(resp.body.error)
    ELSE Returned(resp.body.data, -1)

\* NASADebrisClient.getDebrisData, from the settled fetch on: the parsed body
\* is returned as it is.
getDebrisData(resp) ==
    IF resp.kind = "neterr" THEN Threw("NetworkError")
    ELSE IF ~resp.ok THEN Threw("Failed to fetch debris data")
    ELSE IF ~resp.body.json THEN Threw("SyntaxError")
    ELSE Returned(resp.body.data, resp.body.total)

\* NASADebrisClient.getDebrisStatistics, from the settled fetch on.
getDebrisStatistics(resp) ==
    IF resp.kind = "neterr" THEN Threw("NetworkError")
    ELSE IF ~resp.ok THEN Threw("Failed to fetch debris statistics")
    ELSE IF ~resp.body.json THEN Threw("SyntaxError")
    ELSE Returned(resp.body.data, resp.body.total)

OperationOutcome(op, resp) ==
    CASE op = "getTransactions"     -> getTransactions(resp)
      [] op = "getBlocks"           -> getBlocks(resp)
      [] op = "getSmartContracts"   -> getSmartContracts(resp)
      [] op = "executeContract"     -> executeContract(resp)
      [] op = "getAnalytics"        -> getAnalytics(resp)
      [] op = "getDebrisData"       -> getDebrisData(resp)
      [] op = "getDebrisStatistics" -> getDebrisStatistics(resp)

NoCall ==
    [op |-> "none", pc |-> "free", requests |-> 0, afterCreate |-> FALSE,
     resp |-> NoResponse, out |-> NoOutcome]

\* A caller invokes a fetching operation: the body runs up to its
\* `await fetch(...)`, which issues the one HTTP request.
StartCall(k, op) ==
    /\ calls[k].pc = "free"
    /\ calls' = [calls EXCEPT ![k] =
                    [op |-> op, pc |-> "awaitFetch", requests |-> 1,
                     afterCreate |-> lastCreate.called,
                     resp |-> NoResponse, out |-> NoOutcome]]
    /\ UNCHANGED <<blocks, transactions, lastCreate>>
    /\ UNCHANGED nonClientVars

\* A plausible slip: a retry, the request issued once more after a failure.
SettleRetry(k) ==
    /\ calls[k].pc = "awaitFetch"
    /\ \E resp \in Responses :
           LET out == OperationOutcome(calls[k].op, resp)
           IN  calls' = [calls EXCEPT ![k] =
                   IF out.kind = "threw" /\ calls[k].requests = 1
                   THEN [@ EXCEPT !.requests = 2]
                   ELSE [@ EXCEPT !.pc = out.kind, !.resp = resp, !.out = out]]
    /\ UNCHANGED <<blocks, transactions, lastCreate>>
    /\ UNCHANGED nonClientVars

\* A plausible slip: getTransactions merges what it fetched into the local
\* list and reports the local list's length as the total.
SettleMerging(k) ==
    /\ calls[k].pc = "awaitFetch"
    /\ \E resp \in Responses :
           LET out == OperationOutcome(calls[k].op, resp)
               merged == <<out.data>> \o transactions
           IN  IF calls[k].op = "getTransactions" /\ out.kind = "returned"
               THEN /\ transactions' = merged
                    /\ calls' = [calls EXCEPT ![k] =
                           [@ EXCEPT !.pc = out.kind, !.resp = resp,
                                     !.out = Returned(out.data, Len(merged))]]
               ELSE /\ transactions' = transactions
                    /\ calls' = [calls EXCEPT ![k] =
                           [@ EXCEPT !.pc = out.kind, !.resp = resp, !.out = out]]
    /\ UNCHANGED <<blocks, lastCreate>>
    /\ UNCHANGED nonClientVars

\* A plausible slip: getBlocks keeps the blocks it fetched in the client's
\* list (the field is declared "to store blocks").
SettleStoringBlocks(k) ==
    /\ calls[k].pc = "awaitFetch"
    /\ \E resp \in Responses :
           LET out == OperationOutcome(calls[k].op, resp)
           IN  /\ calls' = [calls EXCEPT ![k] =
                      [@ EXCEPT !.pc = out.kind, !.resp = resp, !.out = out]]
               /\ blocks' = IF calls[k].op = "getBlocks" /\ out.kind = "returned"
                            THEN Ledger(out.data)
                            ELSE blocks
    /\ UNCHANGED <<transactions, lastCreate>>
    /\ UNCHANGED nonClientVars

\* The awaited fetch settles and the rest of the operation's body runs to its
\* return or throw. No operation reads or writes the client's lists.
Settle(k) ==
    /\ calls[k].pc = "awaitFetch"
    /\ \E resp \in Responses :
           LET out == OperationOutcome(calls[k].op, resp)
           IN  calls' = [calls EXCEPT ![k] =
                   [@ EXCEPT !.pc = out.kind, !.resp = resp, !.out = out]]
    /\ UNCHANGED <<blocks, transactions, lastCreate>>
    /\ UNCHANGED nonClientVars


(***************************************************************************)
(* useWallet                                                               *)
(***************************************************************************)
\* Bound: how many keys createRandom() hands out in one run.
MaxKeys == 2

\* Bound: the count of setItem calls saturates here.
MaxWrites == 3

\* The 32-byte hex bodies of the keys createRandom() returns, in order, and
\* of a key put in storage beforehand.
KeyNames == <<"k1", "k2", "k3", "k4">>

StoredBefore == "k0"

HexBodies == {StoredBefore} \cup {KeyNames[i] : i \in 1..Len(KeyNames)}

UpperHex(x) ==
    CASE x = "k0" -> "K0" [] x = "k1" -> "K1" [] x = "k2" -> "K2"
      [] x = "k3" -> "K3" [] x = "k4" -> "K4" [] OTHER -> x

LowerHex(x) ==
    CASE x = "K0" -> "k0" [] x = "K1" -> "k1" [] x = "K2" -> "k2"
      [] x = "K3" -> "k3" [] x = "K4" -> "k4" [] OTHER -> x

\* A string is a sequence of pieces: the "0x" prefix and the hex digits.
\* wallet.privateKey is "0x" and lower-case hex.
CanonicalKey(body) == <<"0x", body>>

\* localStorage.getItem: null when there is no entry, else the string.
NoEntry == [present |-> FALSE, value |-> <<>>]

Entry(str) == [present |-> TRUE, value |-> str]

\* !privateKey : null and the empty string are falsy.
Falsy(item) == ~item.present \/ item.value = <<>>

NullWallet == [present |-> FALSE, privateKey |-> <<>>, address |-> <<>>]

WalletOf(body) ==
    [present |-> TRUE, privateKey |-> CanonicalKey(body),
     address |-> <<"addr", body>>]

\* new ethers.Wallet(privateKey): a string without "0x" gets the prefix, the
\* hex digits are taken in either case, anything else throws.
NewWallet(str) ==
    LET prefixed == IF Len(str) > 0 /\ Head(str) = "0x" THEN str ELSE <<"0x">> \o str
    IN  IF Len(prefixed) = 2 /\ LowerHex(prefixed[2]) \in HexBodies
        THEN [threw |-> FALSE, wallet |-> WalletOf(LowerHex(prefixed[2]))]
        ELSE [threw |-> TRUE, wallet |-> NullWallet]

\* The hook instances and the browser tab (JavaScript realm) each runs in.
\* All tabs of the origin share one localStorage.
Hooks == {"h1", "h2", "h3"}

TabOf(h) == IF h = "h3" THEN "tabB" ELSE "tabA"

SameTabHooks == {h \in Hooks : TabOf(h) = "tabA"}

\* A tab runs one callback at a time: nothing else runs in it while an
\* effect of one of its hooks is between its getItem and its end.
TabIdle(tab) == \A h \in Hooks : TabOf(h) = tab => hooks[h].pc # "inEffect"

Unmounted ==
    [pc |-> "unmounted", wallet |-> NullWallet, privateKey |-> NoEntry,
     generated |-> FALSE]

\* The component mounts: useState(null), the first render returns null, the
\* effect is scheduled.
Mount(h) ==
    /\ hooks[h].pc = "unmounted"
    /\ TabIdle(TabOf(h))
    /\ hooks' = [hooks EXCEPT ![h] = [Unmounted EXCEPT !.pc = "mounted"]]
    /\ UNCHANGED <<storage, storage0, generatedKeys, writes>>
    /\ UNCHANGED nonWalletVars

\* A plausible slip: useEffect without the empty dependency list, so the
\* effect runs again after every render.
EffectGetItemEveryRender(h) ==
    /\ hooks[h].pc \in {"mounted", "ready"}
    /\ TabIdle(TabOf(h))
    /\ hooks' = [hooks EXCEPT ![h] = [@ EXCEPT !.pc = "inEffect", !.privateKey = storage]]
    /\ UNCHANGED <<storage, storage0, generatedKeys, writes>>
    /\ UNCHANGED nonWalletVars

\* The effect starts: let privateKey = localStorage.getItem(...)
EffectGetItem(h) ==
    /\ hooks[h].pc = "mounted"
    /\ TabIdle(TabOf(h))
    /\ hooks' = [hooks EXCEPT ![h] = [@ EXCEPT !.pc = "inEffect", !.privateKey = storage]]
    /\ UNCHANGED <<storage, storage0, generatedKeys, writes>>
    /\ UNCHANGED nonWalletVars

CountWrite(n) == IF n < MaxWrites THEN n + 1 ELSE n

\* A plausible slip: the new wallet's address is stored, not its key.
GeneratePathStoresAddress(h) ==
    /\ Len(generatedKeys) < MaxKeys
    /\ LET newWallet == WalletOf(KeyNames[Len(generatedKeys) + 1])
       IN  /\ generatedKeys' = Append(generatedKeys, newWallet.privateKey)
           /\ storage' = Entry(newWallet.address)
           /\ writes' = CountWrite(writes)
           /\ hooks' = [hooks EXCEPT ![h] =
                  [@ EXCEPT !.pc = "ready", !.wallet = newWallet, !.generated = TRUE]]

\* if (!privateKey): createRandom(), setItem(newWallet.privateKey), setWallet.
GeneratePath(h) ==
    /\ Len(generatedKeys) < MaxKeys
    /\ LET newWallet == WalletOf(KeyNames[Len(generatedKeys) + 1])
       IN  /\ generatedKeys' = Append(generatedKeys, newWallet.privateKey)
           /\ storage' = Entry(newWallet.privateKey)
           /\ writes' = CountWrite(writes)
           /\ hooks' = [hooks EXCEPT ![h] =
                  [@ EXCEPT !.pc = "ready", !.wallet = newWallet, !.generated = TRUE]]

\* A plausible slip: the load path saves the key it has just loaded.
LoadPathResaves(h) ==
    LET made == NewWallet(hooks[h].privateKey.value)
    IN  /\ hooks' = [hooks EXCEPT ![h] =
               [@ EXCEPT !.pc = "ready", !.wallet = made.wallet]]
        /\ storage' = IF made.threw THEN storage ELSE Entry(made.wallet.privateKey)
        /\ writes' = IF made.threw THEN writes ELSE CountWrite(writes)
        /\ UNCHANGED generatedKeys

\* A plausible slip: the catch recovers from a stored value that is no key by
\* generating a new key and storing it.
LoadPathRecovers(h) ==
    LET made == NewWallet(hooks[h].privateKey.value)
        newWallet == WalletOf(KeyNames[Len(generatedKeys) + 1])
    IN  IF made.threw /\ Len(generatedKeys) < MaxKeys
        THEN /\ generatedKeys' = Append(generatedKeys, newWallet.privateKey)
             /\ storage' = Entry(newWallet.privateKey)
             /\ writes' = CountWrite(writes)
             /\ hooks' = [hooks EXCEPT ![h] =
                    [@ EXCEPT !.pc = "ready", !.wallet = newWallet,
                              !.generated = TRUE]]
        ELSE /\ hooks' = [hooks EXCEPT ![h] =
                    [@ EXCEPT !.pc = "ready", !.wallet = made.wallet]]
             /\ UNCHANGED <<storage, generatedKeys, writes>>

\* else: try { setWallet(new ethers.Wallet(privateKey)) } catch { log }.
\* A throw leaves the state null; storage is not touched.
LoadPath(h) ==
    LET made == NewWallet(hooks[h].privateKey.value)
    IN  /\ hooks' = [hooks EXCEPT ![h] =
               [@ EXCEPT !.pc = "ready", !.wallet = made.wallet]]
        /\ UNCHANGED <<storage, generatedKeys, writes>>

\* The rest of the effect, from the test of privateKey to its end; the
\* re-render after setWallet makes the hook return the wallet.
EffectFinish(h) ==
    /\ hooks[h].pc = "inEffect"
    /\ IF Falsy(hooks[h].privateKey) THEN GeneratePath(h) ELSE LoadPath(h)
    /\ UNCHANGED storage0
    /\ UNCHANGED nonWalletVars

\* The component unmounts: its state is dropped. React runs a pending mount
\* effect before it renders again, so the effect has run by then.
Unmount(h) ==
    /\ hooks[h].pc = "ready"
    /\ TabIdle(TabOf(h))
    /\ hooks' = [hooks EXCEPT ![h] = Unmounted]
    /\ UNCHANGED <<storage, storage0, generatedKeys, writes>>
    /\ UNCHANGED nonWalletVars

\* What storage may hold before the first mount: nothing, the empty string,
\* a key in canonical or another valid spelling, or something that is no key.
InitialEntries ==
    {NoEntry, Entry(<<>>), Entry(CanonicalKey(StoredBefore)),
     Entry(<<StoredBefore>>), Entry(CanonicalKey(UpperHex(StoredBefore))),
     Entry(<<"not-a-key">>)}

\* The wallet part before anything of it runs (the other specifications).
WalletIdle ==
    /\ storage = NoEntry
    /\ storage0 = NoEntry
    /\ hooks = [h \in Hooks |-> Unmounted]
    /\ generatedKeys = <<>>
    /\ writes = 0


(***************************************************************************)
(* The scene components' frame callbacks                                   *)
(* Numbers are in thousandths; angles given to Sin and Cos are in tenths   *)
(* of a radian; the elapsed time of a frame is a whole number of seconds.  *)
(***************************************************************************)
\* Bound: the last elapsed time (seconds) a run's clock reaches.
MaxTime == 1

\* sin(k / 10) * 1000 for k = 0..62, one period.
SinTable ==
    <<0, 100, 199, 296, 389, 479, 565, 644, 717, 783, 841, 891, 932, 964, 985,
      997, 1000, 992, 974, 946, 909, 863, 808, 746, 675, 598, 516, 427, 335,
      239, 141, 42, -58, -158, -256, -351, -443, -530, -612, -688, -757, -818,
      -872, -916, -952, -978, -994, -1000, -996, -982, -959, -926, -883, -832,
      -773, -706, -631, -551, -465, -374, -279, -182, -83>>

\* Math.sin
Sin(x) == SinTable[(x % 63) + 1]

\* Math.cos
Cos(x) == Sin(x + 16)

Components ==
    {"RoboticArm", "Furnace", "Printer3D", "DebrisCollectionArm", "RepairStation"}

Runs == {"r1", "r2"}

\* useRef(Math.random() * Math.PI * 2): the values of the model.
Phases == {0, 21}

\* Math.random() * 0.02, the step of a spark in one frame: the values of
\* the model.
SparkSteps == {0, 19}

\* The pose a mount gives, from the JSX (props, material defaults).
InitialPose(c, isActive) ==
    CASE c = "RoboticArm" ->
            [armRotY |-> 524, joint1RotZ |-> 0, joint2RotX |-> 0,
             effectorScaleX |-> 1000,
             effectorEmissive |-> IF isActive THEN 300 ELSE 0,
             lastHudProgress |-> 0, activityProgress |-> 0, setterCalled |-> FALSE]
      [] c = "Furnace" ->
            [glowEmissive |-> 600, glowScale |-> 1000, ringRotY |-> 0,
             ringEmissive |-> 1000, outputY |-> 650]
      [] c = "Printer3D" ->
            [extruderX |-> 0, extruderY |-> 300, extruderZ |-> 0,
             objectMounted |-> isActive, objectScaleY |-> 1000, objectY |-> -50,
             lastProgress |-> 0, printProgress |-> 0]
      [] c = "DebrisCollectionArm" ->
            [armRotY |-> -785, scannerRotZ |-> 0,
             scannerEmissive |-> IF isActive THEN 600 ELSE 0,
             magnetEmissive |-> IF isActive THEN 400 ELSE 0,
             debrisMounted |-> isActive, debrisY |-> 1100,
             debrisRotX |-> 0, debrisRotY |-> 0]
      [] c = "RepairStation" ->
            [toolRotZ |-> 0, toolY |-> 200, repairArmRotX |-> 0, repairArmZ |-> 0,
             diagnosticEmissive |-> IF isActive THEN 500 ELSE 0,
             sparkY |-> 200]

\* A re-render with a changed isActive: the props that depend on it are
\* applied again, and the meshes rendered under `isActive &&` mount or
\* unmount (a mounted mesh starts from its JSX values).
Rerender(c, pose, isActive) ==
    CASE c = "RoboticArm" ->
            [pose EXCEPT !.effectorEmissive = IF isActive THEN 300 ELSE 0]
      [] c = "Furnace" -> pose
      [] c = "Printer3D" ->
            [pose EXCEPT !.objectMounted = isActive, !.objectScaleY = 1000,
                         !.objectY = -50]
      [] c = "DebrisCollectionArm" ->
            [pose EXCEPT !.scannerEmissive = IF isActive THEN 600 ELSE 0,
                         !.magnetEmissive = IF isActive THEN 400 ELSE 0,
                         !.debrisMounted = isActive, !.debrisY = 1100,
                         !.debrisRotX = 0, !.debrisRotY = 0]
      [] c = "RepairStation" ->
            [pose EXCEPT !.diagnosticEmissive = IF isActive THEN 500 ELSE 0]

\* RoboticArm's useFrame callback past the isActive test: the arm moves and
\* the HUD progress is published when its integer value changed.
RoboticArmFrameActive(pose, time, phase) ==
         LET hudProgress == ((Sin(6 * time + phase) + 1000) * 50) \div 1000
             moved ==
                 [pose EXCEPT
                     !.armRotY = (Sin(4 * time + phase) * 5) \div 10,
                     !.joint1RotZ = (Cos(6 * time + phase) * 3) \div 10,
                     !.joint2RotX = (Sin(8 * time + phase) * 4) \div 10,
                     !.effectorScaleX = 1000 + (Sin(20 * time + phase) * 2) \div 10,
                     !.effectorEmissive = 300 + (Sin(30 * time + phase) * 2) \div 10]
         IN  IF hudProgress # pose.lastHudProgress
             THEN [moved EXCEPT !.lastHudProgress = hudProgress,
                                !.activityProgress = hudProgress,
                                !.setterCalled = TRUE]
             ELSE [moved EXCEPT !.setterCalled = FALSE]

\* A plausible slip: the inactive branch returns without resetting the HUD.
RoboticArmFrameNoReset(pose, time, phase, isActive) ==
    IF ~isActive
    THEN [pose EXCEPT !.setterCalled = FALSE]
    ELSE RoboticArmFrameActive(pose, time, phase)

\* RoboticArm's useFrame callback.
RoboticArmFrame(pose, time, phase, isActive) ==
    IF ~isActive
    THEN IF pose.lastHudProgress # 0
         THEN [pose EXCEPT !.lastHudProgress = 0, !.activityProgress = 0,
                           !.setterCalled = TRUE]
         ELSE [pose EXCEPT !.setterCalled = FALSE]
    ELSE RoboticArmFrameActive(pose, time, phase)

\* A plausible slip: the glow's scale grows from its last value.
FurnaceFrameGrowingGlow(pose, time, isActive) ==
    IF ~isActive THEN pose
    ELSE [pose EXCEPT
             !.glowEmissive = 600 + (Sin(30 * time) * 3) \div 10,
             !.glowScale = pose.glowScale + 50,
             !.ringRotY = pose.ringRotY + 30,
             !.ringEmissive = 300 + (Sin(40 * time) * 2) \div 10,
             !.outputY = 100 + (Sin(15 * time) * 2) \div 100]

\* Furnace's useFrame callback (its three refs are always mounted).
FurnaceFrame(pose, time, isActive) ==
    IF ~isActive THEN pose
    ELSE [pose EXCEPT
             !.glowEmissive = 600 + (Sin(30 * time) * 3) \div 10,
             !.glowScale = 1000 + (Sin(20 * time) * 5) \div 100,
             !.ringRotY = pose.ringRotY + 30,
             !.ringEmissive = 300 + (Sin(40 * time) * 2) \div 10,
             !.outputY = 100 + (Sin(15 * time) * 2) \div 100]

\* Printer3D's useFrame callback. The print object is mounted exactly while
\* isActive.
Printer3DFrame(pose, time, isActive) ==
    IF ~isActive THEN pose
    ELSE LET layer == (time \div 2) % 10
             progress == (Sin(3 * time) + 1000) \div 2
             normalizedProgress == (progress * 100) \div 1000
             extruded ==
                 [pose EXCEPT
                     !.extruderX = (Sin(20 * time) * 15) \div 100,
                     !.extruderZ = (Cos(18 * time) * 15) \div 100,
                     !.extruderY = 300 - layer * 20]
         IN  IF ~pose.objectMounted THEN extruded
             ELSE [extruded EXCEPT
                      !.lastProgress = normalizedProgress,
                      !.printProgress = normalizedProgress,
                      !.objectScaleY = progress,
                      !.objectY = -50 + (progress * 50) \div 1000]

\* DebrisCollectionArm's useFrame callback.
DebrisCollectionArmFrame(pose, time, isActive) ==
    IF ~isActive THEN pose
    ELSE LET swept ==
                 [pose EXCEPT
                     !.armRotY = (Sin(3 * time) * 12) \div 10,
                     !.scannerRotZ = pose.scannerRotZ + 50,
                     !.scannerEmissive = 500 + (Sin(40 * time) * 3) \div 10,
                     !.magnetEmissive = 300 + (Sin(20 * time) * 2) \div 10]
         IN  IF ~pose.debrisMounted THEN swept
             ELSE [swept EXCEPT
                      !.debrisY = -200 + Sin(8 * time) \div 10,
                      !.debrisRotX = pose.debrisRotX + 20,
                      !.debrisRotY = pose.debrisRotY + 10]

\* RepairStation's useFrame callback; step is the Math.random() step of the
\* spark (one spark, its y: the others and x, z move the same way). The
\* sparks group is mounted exactly while the operation is in progress.
RepairStationFrame(pose, time, isActive, inProgress, step) ==
    LET tooled ==
            IF isActive /\ inProgress
            THEN [pose EXCEPT
                     !.toolRotZ = (Sin(30 * time) * 2) \div 10,
                     !.toolY = 200 + (Sin(20 * time) * 3) \div 100,
                     !.repairArmRotX = (Sin(15 * time) * 3) \div 10,
                     !.repairArmZ = (Cos(12 * time) * 5) \div 100]
            ELSE pose
        lit ==
            IF isActive
            THEN [tooled EXCEPT
                     !.diagnosticEmissive = 400 + (Sin(30 * time) * 2) \div 10]
            ELSE tooled
    IN  IF inProgress
        THEN [lit EXCEPT
                 !.sparkY = IF pose.sparkY + step > 500 THEN 200
                            ELSE pose.sparkY + step]
        ELSE lit

\* The clock of a run advances (state.clock.getElapsedTime() grows).
Tick(r) ==
    /\ runs[r].time < MaxTime
    /\ runs' = [runs EXCEPT ![r] =
                  [@ EXCEPT !.time = @ + 1, !.framed = FALSE, !.fresh = FALSE]]
    /\ UNCHANGED <<comp, activeSystem, isActiveProps>>
    /\ UNCHANGED nonSceneVars

\* The render loop calls the component's useFrame callback, once for an
\* elapsed time.
Frame(r) ==
    /\ ~runs[r].framed
    /\ \E step \in SparkSteps :
         LET run == runs[r]
             pose ==
                 CASE comp = "RoboticArm" ->
                         RoboticArmFrame(run.pose, run.time, run.phase, run.isActive)
                   [] comp = "Furnace" ->
                         FurnaceFrame(run.pose, run.time, run.isActive)
                   [] comp = "Printer3D" ->
                         Printer3DFrame(run.pose, run.time, run.isActive)
                   [] comp = "DebrisCollectionArm" ->
                         DebrisCollectionArmFrame(run.pose, run.time, run.isActive)
                   [] comp = "RepairStation" ->
                         RepairStationFrame(run.pose, run.time, run.isActive,
                                            run.inProgress, step)
         IN  runs' = [runs EXCEPT ![r] =
                         [@ EXCEPT !.pose = pose, !.framed = TRUE, !.fresh = TRUE,
                                   !.frames = @ + 1]]
    /\ UNCHANGED <<comp, activeSystem, isActiveProps>>
    /\ UNCHANGED nonSceneVars

\* The parent re-renders the component with isActive changed
\* (activeSystem changed).
SetActive(r) ==
    /\ runs' = [runs EXCEPT ![r] =
                  [@ EXCEPT !.isActive = ~runs[r].isActive, !.fresh = FALSE,
                            !.pose = Rerender(comp, runs[r].pose, ~runs[r].isActive)]]
    /\ UNCHANGED <<comp, activeSystem, isActiveProps>>
    /\ UNCHANGED nonSceneVars

NewRun(c, isActive, inProgress, phase) ==
    [time |-> 0, framed |-> FALSE, fresh |-> FALSE, frames |-> 0,
     isActive |-> isActive, inProgress |-> inProgress, phase |-> phase,
     pose |-> InitialPose(c, isActive)]

\* The identifiers SatelliteInteriorScene compares activeSystem with.
SystemIds ==
    {"debris-collector", "repair-station", "furnace", "printer", "arm1", "arm2"}

\* activeSystem: string | null. NullSystem stands for null, which is equal
\* (===) to no string.
NullSystem == "<null>"

ActiveSystemValues == SystemIds \cup {NullSystem, "Arm1", "unknown-system"}

\* The six elements of the scene that take isActive.
SceneElements ==
    {"DebrisCollectionArm", "RepairStation", "Furnace", "Printer3D",
     "RoboticArm1", "RoboticArm2"}

\* A plausible slip: the second arm's line copied from the first with the
\* identifier left as it was.
RenderIsActiveArmsShareId(system) ==
    [el \in SceneElements |->
        CASE el = "DebrisCollectionArm" -> system = "debris-collector"
          [] el = "RepairStation"       -> system = "repair-station"
          [] el = "Furnace"             -> system = "furnace"
          [] el = "Printer3D"           -> system = "printer"
          [] el = "RoboticArm1"         -> system = "arm1"
          [] el = "RoboticArm2"         -> system = "arm1"]

\* The isActive prop of each element: isActive={activeSystem === "..."}.
RenderIsActive(system) ==
    [el \in SceneElements |->
        CASE el = "DebrisCollectionArm" -> system = "debris-collector"
          [] el = "RepairStation"       -> system = "repair-station"
          [] el = "Furnace"             -> system = "furnace"
          [] el = "Printer3D"           -> system = "printer"
          [] el = "RoboticArm1"         -> system = "arm1"
          [] el = "RoboticArm2"         -> system = "arm2"]

\* In a rendered scene the runs are its two RoboticArm elements.
ElementOf(r) == IF r = "r1" THEN "RoboticArm1" ELSE "RoboticArm2"

\* The parent renders SatelliteInteriorScene with a value of activeSystem:
\* every element gets its isActive, and the arms re-render with theirs.
RenderScene(system) ==
    /\ activeSystem' = system
    /\ isActiveProps' = RenderIsActive(system)
    /\ runs' = [r \in Runs |->
                  LET isActive == RenderIsActive(system)[ElementOf(r)]
                  IN  IF isActive = runs[r].isActive THEN runs[r]
                      ELSE [runs[r] EXCEPT
                               !.isActive = isActive, !.fresh = FALSE,
                               !.pose = Rerender(comp, runs[r].pose, isActive)]]
    /\ UNCHANGED comp
    /\ UNCHANGED nonSceneVars

\* Bound: how many frames an arm of the scene renders in one run.
MaxFrames == 3

\* The scene's clock goes on to the next frame: within the same second of
\* elapsed time (dt = 0) or into the next one.
SceneTick(dt) ==
    /\ \A r \in Runs : runs[r].time + dt <= MaxTime /\ runs[r].frames < MaxFrames
    /\ runs' = [r \in Runs |->
                  [runs[r] EXCEPT !.time = @ + dt, !.framed = FALSE,
                                  !.fresh = FALSE]]
    /\ UNCHANGED <<comp, activeSystem, isActiveProps>>
    /\ UNCHANGED nonSceneVars

\* The scene part before anything of it runs (the other specifications).
SceneIdle ==
    /\ comp = "Furnace"
    /\ runs = [r \in Runs |-> NewRun("Furnace", FALSE, FALSE, 0)]
    /\ activeSystem = NullSystem
    /\ isActiveProps = RenderIsActive(NullSystem)

(***************************************************************************)
(* validateTransactionData                                                 *)
(***************************************************************************)
\* JavaScript values a field of the data can hold, written as literals;
\* "undefined" is what reading a missing property gives.
JsValues == {"undefined", "null", "false", "0", "NaN", "''", "true", "5", "'x'"}

\* Boolean(v): these are the falsy values.
ToBoolean(v) == v \notin {"undefined", "null", "false", "0", "NaN", "''"}

\* a && b : a when a is falsy, else b.
And(a, b) == IF ToBoolean(a) THEN b ELSE a

TransactionTypes ==
    {"debris_capture", "material_processing", "satellite_servicing",
     "power_transfer"}

Fields ==
    {"satellite", "debris", "quantity", "material", "target", "service",
     "powerAmount"}

\* A plausible slip: material_processing validated on the material alone.
validateTransactionDataNoQuantity(type, data) ==
    CASE type = "debris_capture" ->
            ToBoolean(And(And(data["satellite"], data["debris"]), data["quantity"]))
      [] type = "material_processing" ->
            ToBoolean(data["material"])
      [] type = "satellite_servicing" ->
            ToBoolean(And(data["target"], data["service"]))
      [] type = "power_transfer" ->
            ToBoolean(And(data["target"], data["powerAmount"]))
      [] OTHER -> FALSE

\* validateTransactionData: the switch over type.
validateTransactionData(type, data) ==
    CASE type = "debris_capture" ->
            ToBoolean(And(And(data["satellite"], data["debris"]), data["quantity"]))
      [] type = "material_processing" ->
            ToBoolean(And(data["material"], data["quantity"]))
      [] type = "satellite_servicing" ->
            ToBoolean(And(data["target"], data["service"]))
      [] type = "power_transfer" ->
            ToBoolean(And(data["target"], data["powerAmount"]))
      [] OTHER -> FALSE

\* The types of the model: the four, one in another letter case, an unknown
\* one and the empty string.
TypeInputs == TransactionTypes \cup {"Debris_Capture", "unknown_type", ""}

\* The data of the model: some fields take every value, the others are all
\* missing or all set.
FieldGroups ==
    {{"satellite", "debris", "quantity"}, {"material", "quantity"},
     {"target", "service"}, {"target", "powerAmount"}}

DataInputs ==
    UNION {{[f \in Fields |-> IF f \in group THEN g[f] ELSE rest] :
               g \in [group -> JsValues], rest \in {"undefined", "'x'"}} :
           group \in FieldGroups}

NoData == [f \in Fields |-> "undefined"]

\* The validation part before anything of it runs.
UtilIdle ==
    validation = [called |-> FALSE, type |-> "", data |-> NoData, result |-> FALSE]

\* A caller calls validateTransactionData(type, data).
Validate ==
    /\ ~validation.called
    /\ validation' =
           [validation EXCEPT
               !.called = TRUE,
               !.result = validateTransactionData(validation.type, validation.data)]
    /\ UNCHANGED nonUtilVars

\* new BlockchainClient(): both lists empty; no call made yet.
ClientInit ==
    /\ blocks = <<>>
    /\ transactions = <<>>
    /\ lastCreate = NoCreate
    /\ calls = [k \in CallIds |-> NoCall]

Init == ClientInit /\ WalletIdle /\ SceneIdle /\ UtilIdle

\* Transaction submission with every input, beside one fetching call.
Next ==
    \/ \E txData \in TxInputs : createTransaction(txData)
    \/ \E op \in BlockchainOps \cup NasaOps : StartCall("k1", op)
    \/ Settle("k1")

Spec == Init /\ [][Next]_vars

\* The submissions of the histories compared: one signed by its sender, one
\* with a malformed signature.
SampleInputs ==
    { txData \in TxInputs :
        /\ txData.from = <<"a", "b">>
        /\ txData.keys = <<"type", "data", "from", "to", "timestamp">>
        /\ (SignedBySender(txData) \/ txData.signature = MalformedSignature) }

\* Several fetching calls, before and after transaction submissions.
FetchNext ==
    \/ \E txData \in SampleInputs : createTransaction(txData)
    \/ \E k \in CallIds, op \in BlockchainOps \cup NasaOps : StartCall(k, op)
    \/ \E k \in CallIds : Settle(k)

FetchSpec == Init /\ [][FetchNext]_vars

(***************************************************************************)
(* Claims about the clients                                                *)
(***************************************************************************)
Ended(k) == calls[k].pc \in {"returned", "threw"}

\* C1: createTransaction rejects with the verification error every call whose
\* recovered address differs from 'from' compared in lower case, and the
\* verification error is thrown for no other reason than a malformed
\* signature or such a difference: a difference in letter case alone never
\* fails the verification.
C1_RejectsMismatchOnly ==
    lastCreate.called =>
        LET mismatch == ToLowerCase(lastCreate.recovered) # ToLowerCase(lastCreate.from)
        IN  /\ (~lastCreate.sigThrew /\ mismatch) =>
                   (lastCreate.outcome = "rejected"
                    /\ lastCreate.error = "Invalid signature.")
            /\ lastCreate.error = "Invalid signature." =>
                   (lastCreate.sigThrew \/ mismatch)

\* C1 witness: a call whose recovered address differs from 'from' in letter
\* case only, and which the verification let through.
C1_Witness ==
    /\ lastCreate.called
    /\ ~lastCreate.sigThrew
    /\ lastCreate.recovered # lastCreate.from
    /\ ToLowerCase(lastCreate.recovered) = ToLowerCase(lastCreate.from)
    /\ lastCreate.error # "Invalid signature."

\* C2: a call signed by the declared sender over the serialized payload
\* recovers the sender, resolves, and puts exactly one new confirmed
\* transaction at the head of the list.
C2_ValidResolves ==
    (lastCreate.called /\ lastCreate.bySender) =>
        /\ ToLowerCase(lastCreate.recovered) = ToLowerCase(lastCreate.from)
        /\ lastCreate.outcome = "resolved"
        /\ Len(transactions) = Len(lastCreate.txBefore) + 1
        /\ Head(transactions).status = "confirmed"
        /\ Tail(transactions) = lastCreate.txBefore

\* C3: a call with an invalid signature (malformed, or recovering to another
\* address than the sender) is rejected and leaves both lists as they were.
C3_InvalidLeavesState ==
    (lastCreate.called
     /\ (lastCreate.sigThrew
         \/ ToLowerCase(lastCreate.recovered) # ToLowerCase(lastCreate.from))) =>
        /\ lastCreate.outcome = "rejected"
        /\ transactions = lastCreate.txBefore
        /\ blocks = lastCreate.blocksBefore

\* C3 witness: both kinds of invalid signature are rejected.
C3_Witness ==
    /\ lastCreate.called
    /\ ~lastCreate.sigThrew
    /\ ToLowerCase(lastCreate.recovered) # ToLowerCase(lastCreate.from)
    /\ lastCreate.outcome = "rejected"

\* C4: every fetching operation throws whenever the HTTP response is not OK,
\* whatever its body.
C4_ThrowsOnFailedResponse ==
    \A k \in CallIds :
        (Ended(k) /\ calls[k].resp.kind = "http" /\ ~calls[k].resp.ok) =>
            calls[k].pc = "threw"

\* C5: a call issues at most one HTTP request, and once it has thrown it does
\* nothing more.
C5_NoRetry ==
    /\ [](\A k \in CallIds : calls[k].requests <= 1)
    /\ [][\A k \in CallIds : calls[k].pc = "threw" => calls'[k] = calls[k]]_vars

\* C5 witness: a call that failed after its one request.
C5_Witness ==
    \E k \in CallIds : calls[k].pc = "threw" /\ calls[k].requests = 1

ReadOps == {"getTransactions", "getBlocks", "getSmartContracts", "getAnalytics"}

\* C6: two calls of the same read operation that receive the same response
\* end the same way, whatever was called on the client before each.
C6_NoLedgerDependence ==
    \A k1, k2 \in CallIds :
        (Ended(k1) /\ Ended(k2)
         /\ calls[k1].op \in ReadOps /\ calls[k1].op = calls[k2].op
         /\ calls[k1].resp = calls[k2].resp) =>
            calls[k1].out = calls[k2].out

\* C6 witness: the same successful getTransactions before and after a
\* createTransaction call.
C6_Witness ==
    \E k1, k2 \in CallIds :
        /\ calls[k1].op = "getTransactions" /\ calls[k2].op = "getTransactions"
        /\ calls[k1].pc = "returned" /\ calls[k2].pc = "returned"
        /\ calls[k1].resp = calls[k2].resp
        /\ ~calls[k1].afterCreate /\ calls[k2].afterCreate

(***************************************************************************)
(* Specifications of useWallet and its claims                              *)
(***************************************************************************)
WalletInit ==
    /\ ClientInit
    /\ UtilIdle
    /\ SceneIdle
    /\ storage0 \in InitialEntries
    /\ storage = storage0
    /\ hooks = [h \in Hooks |-> Unmounted]
    /\ generatedKeys = <<>>
    /\ writes = 0

\* Hooks in two tabs: effects of different tabs interleave at their storage
\* accesses.
WalletNext ==
    \E h \in Hooks :
        \/ Mount(h)
        \/ EffectGetItem(h)
        \/ EffectFinish(h)
        \/ Unmount(h)

WalletSpec == WalletInit /\ [][WalletNext]_vars

\* Hooks of one tab: every effect runs from its start to its end before
\* anything else does, so a run is a sequence of mounts and unmounts.
WalletSeqNext ==
    \E h \in SameTabHooks :
        \/ Mount(h)
        \/ EffectGetItem(h)
        \/ EffectFinish(h)
        \/ Unmount(h)

WalletSeqSpec == WalletInit /\ [][WalletSeqNext]_vars

\* C7: when the effect finds no stored key, then as it ends the hook holds a
\* wallet and storage holds that wallet's private key.
C7_GeneratedKeyStored ==
    [][\A h \in Hooks :
          (hooks[h].pc = "inEffect" /\ hooks'[h].pc = "ready"
           /\ ~hooks[h].privateKey.present) =>
              /\ hooks'[h].wallet.present
              /\ hooks'[h].generated
              /\ storage' = Entry(hooks'[h].wallet.privateKey)]_vars

\* C7 witness: a hook that mounted on empty storage, generated a key, and
\* whose wallet's key is the one in storage.
C7_Witness ==
    \E h \in Hooks :
        /\ ~storage0.present
        /\ hooks[h].pc = "ready" /\ hooks[h].generated
        /\ storage = Entry(hooks[h].wallet.privateKey)

\* C8: in a sequence of mounts and unmounts starting from empty storage,
\* every wallet returned has the key generated on the first mount, and
\* storage is written exactly once.
C8_OneKeyOneWrite ==
    ~storage0.present =>
        /\ writes <= 1
        /\ \A h \in Hooks :
               hooks[h].pc = "ready" =>
                   /\ writes = 1
                   /\ hooks[h].wallet.present
                   /\ hooks[h].wallet.privateKey = generatedKeys[1]
                   /\ storage = Entry(generatedKeys[1])

\* C8 witness: a later mount that loaded the key an earlier mount generated.
C8_Witness ==
    \E h \in Hooks :
        /\ ~storage0.present
        /\ hooks[h].pc = "ready" /\ ~hooks[h].generated
        /\ hooks[h].wallet.present
        /\ hooks[h].wallet.privateKey = generatedKeys[1]
        /\ writes = 1

\* C9: whatever the interleaving of the mount effects of hooks sharing the
\* storage, once every effect has ended each mounted hook holds a wallet with
\* the key storage holds. (Stated for storage that starts empty or with a
\* key in canonical form.)
C9_AllHoldStoredKey ==
    (/\ storage0 \in {NoEntry, Entry(CanonicalKey(StoredBefore))}
     /\ \A h \in Hooks : hooks[h].pc \in {"unmounted", "ready"}) =>
        \A h \in Hooks :
            hooks[h].pc = "ready" =>
                /\ hooks[h].wallet.present
                /\ storage = Entry(hooks[h].wallet.privateKey)

\* The stored values the effect takes for a key (non-empty) that
\* new ethers.Wallet rejects.
CorruptEntries ==
    {x \in InitialEntries : ~Falsy(x) /\ NewWallet(x.value).threw}

\* C12: when storage holds a non-empty value that is not a valid private
\* key, the mount effect leaves storage unchanged and generates no key, and
\* the hook returns null after this mount and after every later mount.
C12_CorruptKeyNoRecovery ==
    storage0 \in CorruptEntries =>
        /\ storage = storage0
        /\ generatedKeys = <<>>
        /\ writes = 0
        /\ \A h \in Hooks : ~hooks[h].wallet.present

\* C12 witness: over a corrupt stored key, the effects of two mounts in one
\* tab have run one after the other and ended, and both hooks return null.
C12_Witness ==
    /\ storage0 \in CorruptEntries
    /\ storage = storage0
    /\ \A h \in SameTabHooks :
           hooks[h].pc = "ready" /\ ~hooks[h].wallet.present

\* React runs the mount effect of every mounted component: an effect that
\* is pending starts although other hooks of the tab keep running theirs,
\* and an effect that has started runs to its end.
WalletFairSpec ==
    /\ WalletInit
    /\ [][WalletNext]_vars
    /\ \A h \in Hooks : SF_vars(EffectGetItem(h)) /\ WF_vars(EffectFinish(h))

\* C13: for every mount where storage holds no key or a valid private key,
\* the hook returns null until the mount effect has run, eventually returns
\* a wallet, and from then on the wallet returned does not change for as
\* long as the component stays mounted.
C13_NullThenStableWallet ==
    /\ [](storage0 \notin CorruptEntries =>
             \A h \in Hooks :
                 /\ hooks[h].pc \in {"mounted", "inEffect"} => ~hooks[h].wallet.present
                 /\ hooks[h].pc = "ready" => hooks[h].wallet.present)
    /\ \A h \in Hooks :
           (storage0 \notin CorruptEntries /\ hooks[h].pc = "mounted")
               ~> hooks[h].wallet.present
    /\ [][\A h \in Hooks :
             (hooks[h].wallet.present /\ hooks'[h].pc # "unmounted") =>
                 hooks'[h].wallet = hooks[h].wallet]_vars

\* C13 witness: a hook that mounted over a stored valid key returns the
\* wallet of that key while another tab's hook is still before its effect.
C13_Witness ==
    /\ storage0 = Entry(<<StoredBefore>>)
    /\ hooks["h1"].pc = "ready"
    /\ hooks["h1"].wallet = WalletOf(StoredBefore)
    /\ hooks["h3"].pc = "mounted"
    /\ ~hooks["h3"].wallet.present

(***************************************************************************)
(* C14, C15: createTransaction's one error, and the client's two lists     *)
(***************************************************************************)
\* The last createTransaction call failed verification: verifyMessage threw
\* on the signature, or the address it recovered is not the sender's.
MalformedFailure == lastCreate.called /\ lastCreate.sigThrew

MismatchFailure ==
    /\ lastCreate.called
    /\ ~lastCreate.sigThrew
    /\ ToLowerCase(lastCreate.recovered) # ToLowerCase(lastCreate.from)

\* C14: createTransaction reports every verification failure with the same
\* error "Invalid signature."; the error thrown for an address mismatch
\* inside the try block never reaches the caller, so a malformed signature
\* and a signature by another address look the same to the caller.
C14_OneVerificationError ==
    /\ (MalformedFailure \/ MismatchFailure) =>
           (lastCreate.outcome = "rejected"
            /\ lastCreate.error = "Invalid signature.")
    /\ lastCreate.error # MismatchError

\* C14 witness: a call signed by another address than the sender's was
\* rejected with "Invalid signature.".
C14_Witness ==
    /\ MismatchFailure
    /\ lastCreate.recovered \in {ChecksumAddress(p) : p \in People}
    /\ lastCreate.error = "Invalid signature."

\* C15: no operation of the client adds to or changes the blocks list, so
\* it is empty in every reachable state; the transactions list is written
\* by createTransaction only, and no operation reads it: a fetching
\* operation ends as its response alone determines.
C15_ListsUntouched ==
    /\ [](blocks = <<>>)
    /\ [](\A k \in CallIds :
             Ended(k) => calls[k].out = OperationOutcome(calls[k].op, calls[k].resp))
    /\ [][transactions' # transactions =>
             /\ calls' = calls
             /\ lastCreate'.called
             /\ lastCreate'.outcome = "resolved"
             /\ lastCreate'.txBefore = transactions]_vars

\* C15 witness: createTransaction has run up to its read of the last block,
\* getBlocks has returned blocks, and both lists are still empty.
C15_Witness ==
    /\ lastCreate.called
    /\ lastCreate.error = "TypeError"
    /\ \E k \in CallIds :
           /\ calls[k].op = "getBlocks"
           /\ calls[k].pc = "returned"
           /\ Len(Ledger(calls[k].out.data)) > 0
    /\ blocks = <<>>
    /\ transactions = <<>>

(***************************************************************************)
(* Specification of the scene components and their claims                  *)
(***************************************************************************)
\* Two mounts of one component. The phase is drawn at each mount; the
\* operation's status is a prop that stays as it is through a run.
SceneInit ==
    /\ ClientInit
    /\ UtilIdle
    /\ WalletIdle
    /\ comp \in Components
    /\ \E a1, a2 \in BOOLEAN, p1, p2 \in BOOLEAN, ph1, ph2 \in Phases :
         /\ (comp # "RepairStation") => (~p1 /\ ~p2)
         /\ (comp # "RoboticArm") => (ph1 = 0 /\ ph2 = 0)
         /\ runs = [r \in Runs |->
                      IF r = "r1" THEN NewRun(comp, a1, p1, ph1)
                      ELSE NewRun(comp, a2, p2, ph2)]
    /\ activeSystem = NullSystem
    /\ isActiveProps = RenderIsActive(NullSystem)

SceneNext ==
    \E r \in Runs :
        \/ Tick(r)
        \/ Frame(r)
        \/ SetActive(r)

SceneSpec == SceneInit /\ [][SceneNext]_vars

\* The attributes a frame callback assigns from the elapsed time when it
\* runs for an active component (for the repair station's tool and arm: with
\* an operation in progress).
TimeDriven(c, run) ==
    LET pose == run.pose
    IN  CASE c = "RoboticArm" ->
                <<pose.armRotY, pose.joint1RotZ, pose.joint2RotX,
                  pose.effectorScaleX, pose.effectorEmissive,
                  pose.lastHudProgress, pose.activityProgress>>
          [] c = "Furnace" ->
                <<pose.glowEmissive, pose.glowScale, pose.ringEmissive, pose.outputY>>
          [] c = "Printer3D" ->
                <<pose.extruderX, pose.extruderY, pose.extruderZ, pose.objectScaleY,
                  pose.objectY, pose.lastProgress, pose.printProgress>>
          [] c = "DebrisCollectionArm" ->
                <<pose.armRotY, pose.scannerEmissive, pose.magnetEmissive, pose.debrisY>>
          [] c = "RepairStation" ->
                IF run.inProgress
                THEN <<pose.toolRotZ, pose.toolY, pose.repairArmRotX,
                       pose.repairArmZ, pose.diagnosticEmissive>>
                ELSE <<pose.diagnosticEmissive>>

\* Two runs just after a frame callback at the same elapsed time, with the
\* same props.
SameFrame(r1, r2) ==
    /\ runs[r1].fresh /\ runs[r2].fresh
    /\ runs[r1].time = runs[r2].time
    /\ runs[r1].isActive = runs[r2].isActive
    /\ runs[r1].inProgress = runs[r2].inProgress

\* C10 as stated, in its case of an active component (and, for RoboticArm,
\* mounts that drew the same phase): two runs that reach the same elapsed
\* time with the same props have the same pose after the frame callback,
\* whatever number of frames each has rendered.
C10_PoseFromPropsAndTime ==
    \A r1, r2 \in Runs :
        (SameFrame(r1, r2) /\ runs[r1].isActive /\ runs[r1].phase = runs[r2].phase) =>
            runs[r1].pose = runs[r2].pose

\* C10 amended: after a frame callback run while the component is active,
\* the attributes assigned from the elapsed time are the same in two runs
\* with the same props, the same elapsed time and (RoboticArm) the same
\* phase, whatever frames and isActive changes came before.
C10_TimeDrivenAttributes ==
    \A r1, r2 \in Runs :
        (SameFrame(r1, r2) /\ runs[r1].isActive /\ runs[r1].phase = runs[r2].phase) =>
            TimeDriven(comp, runs[r1]) = TimeDriven(comp, runs[r2])

\* C10 witness: two active runs just after a frame at the same elapsed time,
\* one having rendered more frames than the other.
C10_Witness ==
    /\ SameFrame("r1", "r2")
    /\ runs["r1"].isActive
    /\ runs["r1"].phase = runs["r2"].phase
    /\ runs["r1"].frames > runs["r2"].frames
    /\ runs["r1"].time > 0

(***************************************************************************)
(* SatelliteInteriorScene with its two robotic arms                        *)
(***************************************************************************)
\* The scene mounts with some value of activeSystem; each arm draws its
\* phase.
InteriorInit ==
    /\ ClientInit
    /\ UtilIdle
    /\ WalletIdle
    /\ comp = "RoboticArm"
    /\ activeSystem \in ActiveSystemValues
    /\ isActiveProps = RenderIsActive(activeSystem)
    /\ \E ph1, ph2 \in Phases :
           runs = [r \in Runs |->
                     NewRun("RoboticArm", isActiveProps[ElementOf(r)], FALSE,
                            IF r = "r1" THEN ph1 ELSE ph2)]

InteriorNext ==
    \/ \E system \in ActiveSystemValues : RenderScene(system)
    \/ \E dt \in {0, 1} : SceneTick(dt)
    \/ \E r \in Runs : Frame(r)

InteriorSpec == InteriorInit /\ [][InteriorNext]_vars

\* The elements the scene has given isActive = true.
ActiveElements == {el \in SceneElements : isActiveProps[el]}

\* C16: at most one subsystem is active at any time: for every value of
\* activeSystem at most one of the six elements receives isActive = true,
\* and none does when activeSystem is null or not one of the six
\* identifiers.
C16_AtMostOneActive ==
    /\ Cardinality(ActiveElements) <= 1
    /\ activeSystem \notin SystemIds => ActiveElements = {}
    /\ \A r \in Runs : runs[r].isActive = isActiveProps[ElementOf(r)]

\* C16 witness: the scene rendered with "arm2" after another value; the
\* second arm is the one active element and has rendered a frame.
C16_Witness ==
    /\ activeSystem = "arm2"
    /\ ActiveElements = {"RoboticArm2"}
    /\ runs["r2"].isActive /\ runs["r2"].fresh
    /\ runs["r1"].frames > 0 /\ ~runs["r1"].isActive

\* The step is a frame callback of run r.
IsFrame(r) == runs'[r].frames = runs[r].frames + 1

\* C17: RoboticArm's HUD progress: after every frame callback, over any
\* sequence of frames and isActive changes, the published activityProgress
\* equals lastHudProgressRef and is an integer in 0..100; it is 0 after any
\* frame rendered while the arm is inactive; and a frame calls the state
\* setter only when the new value differs from the last published one.
C17_HudProgress ==
    /\ [](\A r \in Runs :
             /\ runs[r].pose.activityProgress = runs[r].pose.lastHudProgress
             /\ runs[r].pose.activityProgress \in 0..100
             /\ (runs[r].fresh /\ ~runs[r].isActive) =>
                    runs[r].pose.activityProgress = 0)
    /\ [][\A r \in Runs :
             IsFrame(r) =>
                 (runs'[r].pose.setterCalled =>
                     runs'[r].pose.activityProgress # runs[r].pose.activityProgress)]_vars

\* C17 witness: an arm that published a non-zero progress while active has
\* rendered a frame after it was made inactive, which set the HUD to 0; the
\* other arm, active, has rendered a frame that found the value unchanged.
C17_Witness ==
    \E r1, r2 \in Runs :
        /\ runs[r1].fresh /\ ~runs[r1].isActive
        /\ runs[r1].frames > 1
        /\ runs[r1].pose.setterCalled
        /\ runs[r1].pose.activityProgress = 0
        /\ runs[r2].fresh /\ runs[r2].isActive
        /\ runs[r2].pose.activityProgress > 0
        /\ ~runs[r2].pose.setterCalled

(***************************************************************************)
(* validateTransactionData over the types and data of the model            *)
(***************************************************************************)
ValidateInit ==
    /\ ClientInit
    /\ WalletIdle
    /\ SceneIdle
    /\ \E type \in TypeInputs, data \in DataInputs :
           validation = [called |-> FALSE, type |-> type, data |-> data,
                         result |-> FALSE]

ValidateNext == Validate

ValidateSpec == ValidateInit /\ [][ValidateNext]_vars

\* The fields the claim requires for a type.
RequiredFields(type) ==
    CASE type = "debris_capture"      -> {"satellite", "debris", "quantity"}
      [] type = "material_processing" -> {"material", "quantity"}
      [] type = "satellite_servicing" -> {"target", "service"}
      [] type = "power_transfer"      -> {"target", "powerAmount"}
      [] OTHER                        -> {}

\* C18: validateTransactionData(type, data) returns true exactly when type
\* is one of the four transaction types and every field required for that
\* type is truthy; it returns false for every other type and whenever a
\* required field is missing, null, false, 0 or the empty string.
C18_ValidatesRequiredFields ==
    validation.called =>
        /\ validation.result =
              (/\ validation.type \in TransactionTypes
               /\ \A f \in RequiredFields(validation.type) :
                      ToBoolean(validation.data[f]))
        /\ (\E f \in RequiredFields(validation.type) :
                validation.data[f] \in {"undefined", "null", "false", "0", "''"})
               => ~validation.result
        /\ validation.type \notin TransactionTypes => ~validation.result

\* C18 witness: a debris_capture whose quantity is 0, all else set, has
\* been validated and found invalid.
C18_Witness ==
    /\ validation.called
    /\ validation.type = "debris_capture"
    /\ validation.data["quantity"] = "0"
    /\ \A f \in Fields \ {"quantity"} : validation.data[f] = "'x'"
    /\ ~validation.result

(***************************************************************************)
(* C11: the ledger operations pass the answer through                      *)
(***************************************************************************)
LedgerOps == {"getTransactions", "getBlocks"}

\* A call whose fetch settled with a successful answer (success: true).
SuccessfulResponse(k) ==
    /\ Ended(k)
    /\ calls[k].resp.kind = "http"
    /\ calls[k].resp.body.json
    /\ calls[k].resp.body.success

\* C11: for every successful server response, getBlocks and getTransactions
\* return the response's data and total unmodified; they never reject or
\* filter it, whether or not the returned blocks form a valid hash chain.
C11_LedgerPassedThrough ==
    \A k \in CallIds :
        (calls[k].op \in LedgerOps /\ SuccessfulResponse(k)) =>
            /\ calls[k].pc = "returned"
            /\ calls[k].out.data = calls[k].resp.body.data
            /\ calls[k].out.total = calls[k].resp.body.total

\* getBlocks has returned a list of blocks that is not a hash chain.
C11_Witness ==
    \E k \in CallIds :
        /\ calls[k].op = "getBlocks"
        /\ SuccessfulResponse(k)
        /\ calls[k].pc = "returned"
        /\ ~ValidChain(Ledger(calls[k].out.data))

====
